---- MODULE Spec2Model ----
(***************************************************************************)
(* Multi-pass OCR of a PDF: the worker of ArabicPDFOCRApp (src/app.py).    *)
(*                                                                         *)
(* Text is a sequence of one-character strings.  The alphabet has two      *)
(* letters, one whitespace character that is not a line break (" ") and    *)
(* the line break ("\n"): str.strip() removes both kinds of whitespace,    *)
(* str.split('\n') cuts at the line break only.                            *)
(*                                                                         *)
(* Six specifications share the variables:                                 *)
(*   Spec        the application: start_processing, the worker thread      *)
(*               process_pdf, and the delivery of its terminal signal;     *)
(*   SpecRun     one run of the worker, from the states start_processing   *)
(*               starts it in, with the fairness of thread and event loop; *)
(*   SpecBrowse  one run of the worker interleaved with the file dialogs   *)
(*               browse_pdf and browse_output and with further clicks;     *)
(*   SpecOcr     ocr_multiple_passes called as a function on any image     *)
(*               mode and any pass count up to MaxPasses;                  *)
(*   SpecSelect  the selection at the end of ocr_multiple_passes           *)
(*               (lines 564-582) on every candidate list within MaxChars;  *)
(*   SpecReorder the same selection on the lists within MaxReorderChars,   *)
(*               which are compared with all their reorderings.            *)
(***************************************************************************)
EXTENDS Integers, Sequences, FiniteSets, TLC

VARIABLES
    is_processing,  \* self.is_processing
    pdf_path,       \* self.pdf_path
    output_path,    \* self.output_path
    language,       \* self.language
    dpi,            \* self.dpi
    num_passes,     \* self.num_passes
    pages_label,    \* the widget text of line 286, set at line 593
    passes_label,   \* the widget text of line 290, set at line 594
    pc,             \* the worker's position in process_pdf / ocr_multiple_passes
    images,         \* process_pdf: images
    i,              \* process_pdf: the page index of the loop at line 599
    all_text,       \* process_pdf: all_text
    text,           \* process_pdf: text, the value ocr_multiple_passes returned
    ocr,            \* the frame of ocr_multiple_passes
    emitted,        \* the notifications this run's worker has emitted, in order
    written,        \* what this run's worker has written to the sink
    calls,          \* log: the backend invocations of the current page
    outcomes,       \* log: what the backend answered to each of them
    raster_calls,   \* log: the rasterizer invocations of this run
    failed_pages,   \* log: the pages of this run on which every invocation failed
    write_result,   \* log: how the write at lines 613-617 ended, "" before it
    exc,            \* the exception on its way to line 622, "" when there is none
    pending,        \* the terminal notifications queued for the control context
    notice,         \* what the last run of start_processing left the user with
    tessdata,       \* the languages whose data the backend has installed
    launched        \* log: the configuration in effect when the run was started

vars == <<is_processing, pdf_path, output_path, language, dpi, num_passes,
          pages_label, passes_label, pc, images, i, all_text, text, ocr,
          emitted, written, calls, outcomes, raster_calls, failed_pages,
          write_result, exc, pending, notice, tessdata, launched>>

ui_vars == <<is_processing, pdf_path, output_path, language, dpi, num_passes>>
label_vars == <<pages_label, passes_label>>
run_vars == <<images, i, all_text, emitted, written, raster_calls,
              failed_pages, write_result, exc, pending, launched>>

----------------------------------------------------------------------------
(* Bounds *)

\* SpecOcr: the largest pass count ocr_multiple_passes is called with.
MaxPasses == 6
\* Spec: the largest number of pages the rasterizer returns.
MaxPages == 2
\* SpecSelect: the total number of characters of a candidate list.
MaxChars == 6

\* SpecReorder: the most characters the candidates of one list have in all.
MaxReorderChars == 5

----------------------------------------------------------------------------
(* Text *)

Letters == {"a", "b"}
Whitespace == {" ", "\n"}
Chars == Letters \cup Whitespace

\* str.strip(): s without its leading and trailing whitespace.
strip(s) ==
    LET keep == {k \in 1..Len(s) : s[k] \notin Whitespace}
    IN IF keep = {} THEN <<>>
       ELSE LET first == CHOOSE k \in keep : \A m \in keep : k <= m
                last == CHOOSE k \in keep : \A m \in keep : k >= m
            IN SubSeq(s, first, last)

\* str.split('\n'): the pieces of s between line breaks; one more piece than
\* there are line breaks, so split of the empty text is one empty line.
RECURSIVE split(_)
split(s) ==
    LET breaks == {k \in 1..Len(s) : s[k] = "\n"}
    IN IF breaks = {} THEN <<s>>
       ELSE LET k == CHOOSE b \in breaks : \A m \in breaks : b <= m
            IN <<SubSeq(s, 1, k - 1)>> \o split(SubSeq(s, k + 1, Len(s)))

\* '\n'.join(parts): the parts with one line break between neighbours.
RECURSIVE join(_)
join(parts) ==
    IF parts = <<>> THEN <<>>
    ELSE IF Len(parts) = 1 THEN parts[1]
    ELSE parts[1] \o <<"\n">> \o join(Tail(parts))

----------------------------------------------------------------------------
(* The selection at the end of ocr_multiple_passes *)

\* The candidate of the first pass, whatever its length.
best_result_head(all_results) == all_results[1]

\* The last of the longest candidates.
best_result_last(all_results) ==
    LET k == CHOOSE k \in 1..Len(all_results) :
                 /\ \A m \in 1..Len(all_results) :
                        Len(all_results[m]) <= Len(all_results[k])
                 /\ \A m \in (k + 1)..Len(all_results) :
                        Len(all_results[m]) < Len(all_results[k])
    IN all_results[k]

\* max(all_results, key=len): the first of the longest candidates.
best_result(all_results) ==
    LET k == CHOOSE k \in 1..Len(all_results) :
                 /\ \A m \in 1..Len(all_results) :
                        Len(all_results[m]) <= Len(all_results[k])
                 /\ \A m \in 1..(k - 1) :
                        Len(all_results[m]) < Len(all_results[k])
    IN all_results[k]

\* The inner loop without the test of seen_lines.
RECURSIVE scan_lines_keep_repeats(_, _)
scan_lines_keep_repeats(lines, acc) ==
    IF lines = <<>> THEN acc
    ELSE LET line_clean == strip(Head(lines))
         IN IF line_clean # <<>>
            THEN scan_lines_keep_repeats(
                     Tail(lines),
                     [all_lines |-> Append(acc.all_lines, line_clean),
                      seen_lines |-> acc.seen_lines \cup {line_clean}])
            ELSE scan_lines_keep_repeats(Tail(lines), acc)

\* The inner loop of lines 572-576 over the lines of one result; acc is
\* the pair of all_lines and seen_lines.  The two arguments are bound to
\* their values once (ls, a), as the variables of the loop are.
RECURSIVE scan_lines(_, _)
scan_lines(lines, acc) ==
    CHOOSE result \in
        {IF ls = <<>> THEN a
         ELSE LET line_clean == strip(Head(ls))
              IN IF line_clean # <<>> /\ line_clean \notin a.seen_lines
                 THEN scan_lines(Tail(ls),
                                 [all_lines |-> Append(a.all_lines, line_clean),
                                  seen_lines |-> a.seen_lines \cup {line_clean}])
                 ELSE scan_lines(Tail(ls), a)
         : ls \in {lines}, a \in {acc}} : TRUE

\* The outer loop of lines 570-576 over the results.
RECURSIVE scan_results(_, _)
scan_results(results, acc) ==
    IF results = <<>> THEN acc
    ELSE scan_results(Tail(results), scan_lines(split(Head(results)), acc))

\* all_lines after the loops of lines 568-576.
all_lines(all_results) ==
    scan_results(all_results, [all_lines |-> <<>>, seen_lines |-> {}]).all_lines

\* merged_result of line 578.
merged_result(all_results) == join(all_lines(all_results))

\* The test of line 579, len(merged_result) > len(best_result) * 1.2.  The
\* product is a double; it equals the exact 6n/5 whenever that is an integer
\* and is at least 0.2 away from every integer otherwise, so for integer
\* lengths the test is the integer comparison 5 * merged > 6 * best.
merge_wins(merged_len, best_len) == 5 * merged_len > 6 * best_len

\* A selection that takes the merged text at equality too.
select_at_equality(all_results) ==
    IF all_results = <<>> THEN <<>>
    ELSE IF 5 * Len(merged_result(all_results)) >= 6 * Len(best_result(all_results))
         THEN merged_result(all_results)
         ELSE best_result(all_results)

\* A selection that always takes the merged text.
select_always_merged(all_results) ==
    IF all_results = <<>> THEN <<>> ELSE merged_result(all_results)

\* A selection that answers a placeholder when there is no candidate.
select_placeholder(all_results) ==
    IF all_results = <<>> THEN <<"?">>
    ELSE IF merge_wins(Len(merged_result(all_results)),
                       Len(best_result(all_results)))
         THEN merged_result(all_results)
         ELSE best_result(all_results)

\* Lines 564-582: what ocr_multiple_passes returns for all_results.
select(all_results) ==
    IF all_results = <<>> THEN <<>>
    ELSE IF merge_wins(Len(merged_result(all_results)),
                       Len(best_result(all_results)))
         THEN merged_result(all_results)
         ELSE best_result(all_results)

----------------------------------------------------------------------------
(* Images and the variants of preprocess_image *)

\* A page image: its page, its pixel mode and the operations applied to the
\* rasterizer's bitmap, none for the source image itself.
source_image(page, mode) == [page |-> page, mode |-> mode, ops |-> <<>>]

NoImage == source_image(0, "")

\* One derivation applied to an image: the operation is recorded, and
\* convert('L') also changes the mode.
derive(image, op, arg) ==
    [image EXCEPT !.ops = Append(@, [op |-> op, arg |-> arg]),
                  !.mode = IF op = "convert" THEN arg ELSE @]

\* The variants derived one from the other instead of from the source.
preprocess_image_chained(image) ==
    <<image,
      derive(image, "Contrast", "1.5"),
      derive(derive(image, "Contrast", "1.5"), "Sharpness", "2.0"),
      derive(derive(derive(image, "Contrast", "1.5"), "Sharpness", "2.0"),
             "MedianFilter", "3")>>
    \o (IF image.mode # "L"
        THEN <<derive(derive(image, "convert", "L"), "Contrast", "2.0")>>
        ELSE <<>>)

\* Lines 528-541.  image.copy() has the pixels of image.
preprocess_image(image) ==
    <<image,
      derive(image, "Contrast", "1.5"),
      derive(image, "Sharpness", "2.0"),
      derive(image, "MedianFilter", "3")>>
    \o (IF image.mode # "L"
        THEN <<derive(derive(image, "convert", "L"), "Contrast", "2.0")>>
        ELSE <<>>)

\* The derivations of lines 531-540 that can raise, "" when none does.
DerivationFaults == {"", "Contrast", "Sharpness", "MedianFilter", "convert"}

\* Whether preprocess_image(image) ends with an exception when the step
\* fault raises: lines 528-541 have no try, and convert runs for a source
\* that is not single-channel only.
preprocess_raises(image, fault) ==
    /\ fault # ""
    /\ fault = "convert" => image.mode # "L"

----------------------------------------------------------------------------
(* The passes of ocr_multiple_passes *)

\* Lines 545-550: the layout modes, in order.
psm_modes == <<"6", "3", "11", "12">>

\* The variant index counted from pass 1 instead of pass 0.
variant_index_from_one(pass_num, n) == (pass_num + 1) % n

\* Line 555: the index into processed_images of pass pass_num.
variant_index(pass_num, n) == pass_num % n

\* The first layout mode for every pass.
psm_index_first(pass_num) == 0

\* Line 554: the index into psm_modes of pass pass_num.
psm_index(pass_num) == pass_num % Len(psm_modes)

\* What pytesseract.image_to_string does: it raises, or it returns a text.
\* Both failures are a TesseractError; they differ in the message.
Fail == [ok |-> FALSE, text |-> <<>>, error |-> "engine error"]
MissingLanguage == [ok |-> FALSE, text |-> <<>>, error |-> "Failed loading language"]
Ok(t) == [ok |-> TRUE, text |-> t, error |-> ""]

\* The texts the backend returns here: whitespace only, a word, and a word
\* inside whitespace.
BackendTexts == {<<"\n", " ">>, <<"a">>, <<" ", "b", "\n">>}
BackendOutcomes == {Fail} \cup {Ok(t) : t \in BackendTexts}

\* The language data a lang argument names: 'ara+eng' names two.
lang_parts(lang) == IF lang = "ara+eng" THEN {"ara", "eng"} ELSE {lang}

\* The language data that can be installed: Arabic and English, or none
\* (the engine without its data packages).
TessdataSets == {{"ara", "eng"}, {}}

\* How a backend invocation with lang can end when data is installed: the
\* engine cannot start when none of the named languages loads, and every
\* invocation raises the missing-language failure.
backend_outcomes(lang, data) ==
    IF lang_parts(lang) \cap data = {} THEN {MissingLanguage} ELSE BackendOutcomes

\* A pass that keeps the text as the backend returned it.
pass_result_untrimmed(all_results, outcome) ==
    [raised |-> FALSE,
     all_results |-> IF outcome.ok /\ strip(outcome.text) # <<>>
                     THEN Append(all_results, outcome.text)
                     ELSE all_results]

\* A pass without the try of line 556: a backend failure escapes.
pass_result_uncaught(all_results, outcome) ==
    [raised |-> ~outcome.ok,
     all_results |-> IF outcome.ok /\ strip(outcome.text) # <<>>
                     THEN Append(all_results, strip(outcome.text))
                     ELSE all_results]

\* Lines 556-562: all_results after a pass whose backend call ended with
\* outcome, and whether an exception leaves the loop (never: line 561
\* catches every Exception and continues).
pass_result(all_results, outcome) ==
    [raised |-> FALSE,
     all_results |-> IF outcome.ok /\ strip(outcome.text) # <<>>
                     THEN Append(all_results, strip(outcome.text))
                     ELSE all_results]

\* Lines 544-551: the frame of ocr_multiple_passes before its first pass.
ocr_call(image, lang, passes) ==
    [image |-> image, lang |-> lang, num_passes |-> passes,
     processed_images |-> preprocess_image(image),
     pass_num |-> 0, all_results |-> <<>>]

NoFrame ==
    [image |-> NoImage, lang |-> "", num_passes |-> 0,
     processed_images |-> <<>>, pass_num |-> 0, all_results |-> <<>>]

\* Lines 554-558: the backend invocation of pass frame.pass_num.
invocation(frame) ==
    LET vi == variant_index(frame.pass_num, Len(frame.processed_images))
    IN [pass_num |-> frame.pass_num,
        variant_index |-> vi,
        image |-> frame.processed_images[vi + 1],
        lang |-> frame.lang,
        psm |-> psm_modes[psm_index(frame.pass_num) + 1]]

\* Lines 553-562: one turn of the loop.
ocr_pass ==
    /\ pc = "pass"
    /\ ocr.pass_num < ocr.num_passes
    /\ \E outcome \in backend_outcomes(ocr.lang, tessdata) :
         LET r == pass_result(ocr.all_results, outcome)
         IN /\ calls' = Append(calls, invocation(ocr))
            /\ outcomes' = Append(outcomes, outcome)
            /\ IF r.raised
               THEN /\ pc' = "raise"
                    /\ exc' = "TesseractError"
                    /\ ocr' = ocr
               ELSE /\ pc' = "pass"
                    /\ exc' = exc
                    /\ ocr' = [ocr EXCEPT !.pass_num = @ + 1,
                                          !.all_results = r.all_results]
    /\ UNCHANGED <<ui_vars, label_vars, images, i, all_text, emitted, written,
                   raster_calls, failed_pages, write_result, pending, text,
                   notice, tessdata, launched>>

\* Lines 564-582 and the assignment of line 604: the loop is over and the
\* selection is returned.
ocr_return ==
    /\ pc = "pass"
    /\ ocr.pass_num = ocr.num_passes
    /\ text' = select(ocr.all_results)
    /\ pc' = "returned"
    /\ UNCHANGED <<ui_vars, label_vars, run_vars, ocr, calls, outcomes,
                   notice, tessdata>>

----------------------------------------------------------------------------
(* Paths *)

\* A path text: the name without its suffix, and the suffix.  The empty
\* text has neither.
Path(stem, suffix) == [stem |-> stem, suffix |-> suffix]
EmptyPath == Path("", "")

\* What the user can have in pdf_input: nothing, a file that does not exist,
\* a file that is no PDF, a PDF.
PdfInputs ==
    {EmptyPath, Path("missing", ".pdf"), Path("notes", ".txt"), Path("doc", ".pdf")}

\* What the user can have in output_input: nothing, a file name.
OutputInputs == {EmptyPath, Path("out", ".txt")}

\* The files of the file system the user picks documents from.
ExistingFiles == {Path("notes", ".txt"), Path("doc", ".pdf")}

\* Path(p).exists(); Path('') is the current directory, which exists.
exists(p) == p = EmptyPath \/ p \in ExistingFiles

\* str.lower() on the suffixes that occur.
lower(suffix) == IF suffix = ".PDF" THEN ".pdf" ELSE suffix

\* Path(p).with_suffix(suffix) raises ValueError on a path with an empty name.
with_suffix_raises(p) == p.stem = ""
with_suffix(p, suffix) == [p EXCEPT !.suffix = suffix]

----------------------------------------------------------------------------
(* The state after construction, lines 40-48 and 286-290 *)

Languages == {"ara", "ara+eng", "eng"}
\* Three of the five items of dpi_combo: the lowest, the default, the highest.
Dpis == {200, 400, 800}
ImageModes == {"L", "RGB"}

\* Nothing shown yet.
NoNotice == [kind |-> "", text |-> ""]

\* The attributes of lines 482-505 as they are when line 525 starts the
\* thread, and the record of no run.
Launch(pdf, output, lang, d, passes) ==
    [pdf_path |-> pdf, output_path |-> output, language |-> lang, dpi |-> d,
     num_passes |-> passes]
NoLaunch == Launch(EmptyPath, EmptyPath, "", 0, 0)

Constructed ==
    /\ is_processing = FALSE
    /\ pdf_path = EmptyPath
    /\ output_path = EmptyPath
    /\ language = "ara"
    /\ dpi = 400
    /\ num_passes = 3
    /\ pages_label = <<"Pages: ", "0">>
    /\ passes_label = <<"Passes: ", "0">>
    /\ images = <<>>
    /\ i = 0
    /\ all_text = <<>>
    /\ text = <<>>
    /\ emitted = <<>>
    /\ written = <<>>
    /\ raster_calls = <<>>
    /\ failed_pages = {}
    /\ write_result = ""
    /\ exc = ""
    /\ pending = <<>>
    /\ notice = NoNotice
    /\ launched = NoLaunch

----------------------------------------------------------------------------
(* SpecOcr: ocr_multiple_passes as a function *)

InitOcr ==
    /\ Constructed
    /\ tessdata \in TessdataSets
    /\ pc = "pass"
    /\ \E mode \in ImageModes, lang \in Languages, passes \in 1..MaxPasses :
         ocr = ocr_call(source_image(1, mode), lang, passes)
    /\ calls = <<>>
    /\ outcomes = <<>>

NextOcr == ocr_pass \/ ocr_return

SpecOcr == InitOcr /\ [][NextOcr]_vars

----------------------------------------------------------------------------
(* SpecSelect: the selection on every candidate list *)

\* The texts of n characters that strip() leaves as they are.
Trimmed(n) ==
    {s \in [1..n -> Chars] : s[1] \notin Whitespace /\ s[n] \notin Whitespace}

\* The lists of trimmed non-empty texts of at most budget characters in all.
RECURSIVE Lists(_)
Lists(budget) ==
    {<<>>} \cup UNION {{<<t>> \o rest : t \in Trimmed(n), rest \in Lists(budget - n)} :
                       n \in 1..budget}

\* The candidate lists of the specification's examples.
ExampleAB ==
    << <<"A", "B", "\n", "C", "D">>, <<"C", "D", "\n", "E", "F">> >>
ExampleHello ==
    << <<"h", "e", "l", "l", "o", " ", "w", "o", "r", "l", "d">>,
       <<"h", "e", "l", "l", "o">> >>

CandidateLists == Lists(MaxChars) \cup {ExampleAB, ExampleHello}

\* The frame at line 564 after passes that produced the candidates cands:
\* one pass per candidate, or one failed pass when there is none.
frame_at_selection(cands) ==
    LET passes == IF cands = <<>> THEN 1 ELSE Len(cands)
    IN [ocr_call(source_image(1, "RGB"), "ara", passes)
           EXCEPT !.pass_num = passes, !.all_results = cands]

InitSelect ==
    /\ Constructed
    /\ tessdata = {"ara", "eng"}
    /\ pc = "pass"
    /\ \E cands \in CandidateLists :
         /\ ocr = frame_at_selection(cands)
         /\ outcomes = IF cands = <<>> THEN <<Fail>>
                       ELSE [k \in 1..Len(cands) |-> Ok(cands[k])]
    /\ calls = <<>>

NextSelect == ocr_return

SpecSelect == InitSelect /\ [][NextSelect]_vars

\* SpecReorder: the selection on the candidate lists that are compared with
\* all their reorderings.
InitReorder ==
    /\ Constructed
    /\ tessdata = {"ara", "eng"}
    /\ pc = "pass"
    /\ \E cands \in Lists(MaxReorderChars) \ {<<>>} :
         /\ ocr = frame_at_selection(cands)
         /\ outcomes = [k \in 1..Len(cands) |-> Ok(cands[k])]
    /\ calls = <<>>

NextReorder == ocr_return

SpecReorder == InitReorder /\ [][NextReorder]_vars

----------------------------------------------------------------------------
(* Notifications: the signals of WorkerSignals, lines 31-36 *)

\* A progress value is the exact fraction <<numerator, denominator>>.
Progress(num, den) == [sig |-> "progress", val |-> <<num, den>>]
Status(words) == [sig |-> "status", val |-> words]
TextUpdate(t) == [sig |-> "text_update", val |-> t]
Finished(path, pages, passes) ==
    [sig |-> "finished",
     val |-> [output_path |-> path, pages |-> pages, passes |-> passes]]
Error(msg) == [sig |-> "error", val |-> msg]

\* The page progress that counts the pages before page i only.
page_progress_before(page, total_pages) ==
    <<10 * total_pages + 85 * (page - 1), 100 * total_pages>>

\* Line 600: 0.1 + (i / total_pages) * 0.85, as an exact fraction.  In
\* doubles the values of one document are strictly increasing as well, and
\* the value of the last page is the double 0.95 of line 611.
page_progress(page, total_pages) ==
    <<10 * total_pages + 85 * page, 100 * total_pages>>

\* '=' * 60
Rule == "============================================================"

\* A section numbered as by enumerate(images), from 0.
section_from_zero(page, page_text) ==
    <<"\n", Rule, "\n", "Page ", ToString(page - 1), "\n", Rule, "\n", "\n">>
    \o page_text \o <<"\n">>

\* Line 605: the section of page i, the header lines and the page's text.
section(page, page_text) ==
    <<"\n", Rule, "\n", "Page ", ToString(page), "\n", Rule, "\n", "\n">>
    \o page_text \o <<"\n">>

----------------------------------------------------------------------------
(* Spec: the application *)

Init ==
    /\ Constructed
    /\ tessdata \in TessdataSets
    /\ pc = "idle"
    /\ ocr = NoFrame
    /\ calls = <<>>
    /\ outcomes = <<>>

\* QMessageBox.warning(self, "Error", text), and an exception that leaves the
\* slot uncaught: Qt prints its traceback and the event loop goes on.
Warning(words) == [kind |-> "warning", text |-> words]
Uncaught(e) == [kind |-> "exception", text |-> e]

\* Lines 507-517: the warning for the text of pdf_input, NoNotice when the
\* text passes the three tests.
input_warning(p) ==
    IF p = EmptyPath THEN Warning("Please select a PDF file.")
    ELSE IF ~exists(p) THEN Warning("PDF file not found")
    ELSE IF lower(p.suffix) # ".pdf" THEN Warning("Selected file is not a PDF.")
    ELSE NoNotice

\* A click that is never ignored.
click_never_ignored == FALSE

\* Lines 479-480: the click returns at once, before any assignment.
click_ignored == is_processing

\* Lines 478-526, from the texts of the two line edits and the current items
\* of the three combo boxes.
start_processing ==
    /\ ~click_ignored
    /\ \E pdf_text \in PdfInputs, output_text \in OutputInputs,
          passes \in 1..4, lang \in Languages, d \in Dpis :
         /\ pdf_path' = pdf_text
         /\ IF output_text = EmptyPath /\ with_suffix_raises(pdf_text)
            THEN \* line 484 raises and the slot ends there
                 /\ notice' = Uncaught("ValueError")
                 /\ UNCHANGED <<output_path, num_passes, language, dpi,
                                is_processing, pc, run_vars>>
            ELSE /\ output_path' = IF output_text # EmptyPath THEN output_text
                                   ELSE with_suffix(pdf_text, ".txt")
                 /\ num_passes' = passes
                 /\ language' = lang
                 /\ dpi' = d
                 /\ notice' = input_warning(pdf_text)
                 /\ IF input_warning(pdf_text) # NoNotice
                    THEN \* lines 507-517: a warning, and no worker
                         UNCHANGED <<is_processing, pc, run_vars>>
                    ELSE \* lines 519-526: the worker thread starts
                         /\ is_processing' = TRUE
                         /\ pc' = "begin"
                         /\ images' = <<>>
                         /\ i' = 0
                         /\ all_text' = <<>>
                         /\ emitted' = <<>>
                         /\ written' = <<>>
                         /\ raster_calls' = <<>>
                         /\ failed_pages' = {}
                         /\ write_result' = ""
                         /\ exc' = ""
                         /\ pending' = pending
                         /\ launched' = Launch(pdf_path', output_path', lang, d,
                                               passes)
    /\ UNCHANGED <<label_vars, text, ocr, calls, outcomes, tessdata>>

\* Lines 586-587.
process_pdf_begin ==
    /\ pc = "begin"
    /\ emitted' = emitted \o <<Progress(5, 100), Status(<<"Converting PDF to images...">>)>>
    /\ pc' = "convert"
    /\ UNCHANGED <<ui_vars, label_vars, images, i, all_text, text, ocr, written,
                   calls, outcomes, raster_calls, failed_pages, write_result,
                   exc, pending,
                   notice, tessdata, launched>>

\* What the rasterizer does: it raises, or it returns the pages.  The pages
\* of convert_from_path(path, dpi=dpi) are RGB images.
RasterOutcomes ==
    {[ok |-> FALSE, images |-> <<>>]}
    \cup {[ok |-> TRUE, images |-> [k \in 1..n |-> source_image(k, "RGB")]] :
          n \in 0..MaxPages}

\* A rasterizer failure taken for a document without pages.
convert_failed_as_empty(outcome) == FALSE

\* Lines 589 and 622: whether convert_from_path's outcome is an exception
\* that ends the try block.
convert_failed(outcome) == ~outcome.ok

\* Lines 589-597.
process_pdf_convert ==
    /\ pc = "convert"
    /\ \E outcome \in RasterOutcomes :
         /\ raster_calls' = Append(raster_calls, [path |-> pdf_path, dpi |-> dpi,
                                                  ok |-> outcome.ok])
         /\ IF convert_failed(outcome)
            THEN /\ pc' = "raise"
                 /\ exc' = "PDFPageCountError"
                 /\ UNCHANGED <<images, emitted, label_vars, all_text>>
            ELSE /\ images' = outcome.images
                 /\ emitted' = emitted
                        \o <<Status(<<"Found ", ToString(Len(outcome.images)), " pages">>),
                             Progress(10, 100)>>
                 /\ pages_label' = <<"Pages: ", ToString(Len(outcome.images))>>
                 /\ passes_label' = <<"Passes: ", ToString(num_passes)>>
                 /\ all_text' = <<>>
                 /\ pc' = "loop"
                 /\ exc' = exc
    /\ UNCHANGED <<ui_vars, i, text, ocr, written, calls, outcomes, failed_pages,
                   write_result, pending,
                   notice, tessdata, launched>>

\* Lines 599-604 and 544-551, up to the first pass of ocr_multiple_passes
\* for the next page.
process_pdf_page ==
    /\ pc = "loop"
    /\ i < Len(images)
    /\ i' = i + 1
    /\ emitted' = emitted
           \o <<Progress(page_progress(i + 1, Len(images))[1],
                         page_progress(i + 1, Len(images))[2]),
                Status(<<"Processing page ", ToString(i + 1), "/",
                         ToString(Len(images)), "...">>)>>
    /\ \E fault \in DerivationFaults :
         IF preprocess_raises(images[i + 1], fault)
         THEN \* line 551 is outside the try of line 556
              /\ ocr' = NoFrame
              /\ pc' = "raise"
              /\ exc' = "image error"
         ELSE /\ ocr' = ocr_call(images[i + 1], language, num_passes)
              /\ pc' = "pass"
              /\ exc' = exc
    /\ calls' = <<>>
    /\ outcomes' = <<>>
    /\ UNCHANGED <<ui_vars, label_vars, images, all_text, text, written,
                   raster_calls, failed_pages, write_result, pending,
                   notice, tessdata, launched>>

\* Lines 605-608, after the return of ocr_multiple_passes.
process_pdf_page_done ==
    /\ pc = "returned"
    /\ i >= 1
    /\ all_text' = Append(all_text, section(i, text))
    /\ emitted' = Append(emitted, TextUpdate(join(all_text')))
    /\ failed_pages' = IF \A k \in 1..Len(outcomes) : ~outcomes[k].ok
                       THEN failed_pages \cup {i} ELSE failed_pages
    /\ ocr' = NoFrame
    /\ calls' = <<>>
    /\ outcomes' = <<>>
    /\ pc' = "loop"
    /\ UNCHANGED <<ui_vars, label_vars, images, i, text, written, raster_calls,
                   write_result, exc, pending,
                   notice, tessdata, launched>>

\* How mkdir, open and write of lines 614-617 can end: all done; mkdir or
\* open raises and no file is touched; open has truncated the file and the
\* write raises.
WriteOutcomes == {"ok", "open failed", "write failed"}

\* A worker that reports the end of the run whether the write succeeded or not.
write_events_regardless(outcome, path, pages, passes) ==
    <<Progress(100, 100), Finished(path, pages, passes)>>

\* Lines 619-620: what is emitted after the write, by its outcome.
write_events(outcome, path, pages, passes) ==
    IF outcome = "ok"
    THEN <<Progress(100, 100), Finished(path, pages, passes)>>
    ELSE <<>>

\* Lines 610-620.
process_pdf_write ==
    /\ pc = "loop"
    /\ i = Len(images)
    /\ \E outcome \in WriteOutcomes :
         LET full_text == join(all_text)
             events == write_events(outcome, output_path, Len(images), num_passes)
         IN /\ write_result' = outcome
            /\ written' = IF outcome = "open failed" THEN written
                          ELSE Append(written, [path |-> output_path,
                                                text |-> full_text,
                                                complete |-> outcome = "ok"])
            /\ emitted' = Append(emitted, Progress(95, 100)) \o events
            /\ pending' = pending
                   \o SelectSeq(events, LAMBDA e : e.sig \in {"finished", "error"})
            /\ IF outcome = "ok"
               THEN pc' = "done" /\ exc' = exc
               ELSE pc' = "raise" /\ exc' = "OSError"
    /\ UNCHANGED <<ui_vars, label_vars, images, i, all_text, text, ocr, calls,
                   outcomes, raster_calls, failed_pages,
                   notice, tessdata, launched>>

\* A handler that resets the progress after it has reported the error.
except_events_then_progress(e) == <<Error(e), Progress(0, 100)>>

\* Line 623: what the handler of line 622 emits.
except_events(e) == <<Error(e)>>

\* Lines 622-623.
process_pdf_except ==
    /\ pc = "raise"
    /\ emitted' = emitted \o except_events(exc)
    /\ pending' = pending
           \o SelectSeq(except_events(exc), LAMBDA e : e.sig \in {"finished", "error"})
    /\ pc' = "done"
    /\ UNCHANGED <<ui_vars, label_vars, images, i, all_text, text, ocr, written,
                   calls, outcomes, raster_calls, failed_pages, write_result, exc,
                   notice, tessdata, launched>>

\* The worker thread has returned from process_pdf and its locals are gone;
\* the logs of the run end with the handling of its terminal notification.
run_over ==
    /\ pc' = "idle"
    /\ images' = <<>>
    /\ i' = 0
    /\ all_text' = <<>>
    /\ text' = <<>>
    /\ emitted' = <<>>
    /\ written' = <<>>
    /\ raster_calls' = <<>>
    /\ failed_pages' = {}
    /\ write_result' = ""
    /\ exc' = ""
    /\ launched' = NoLaunch

\* Lines 454-468, run in the control context for a queued finished signal.
on_finished ==
    /\ pending # <<>>
    /\ Head(pending).sig = "finished"
    /\ pending' = Tail(pending)
    /\ is_processing' = FALSE
    /\ run_over
    /\ UNCHANGED <<pdf_path, output_path, language, dpi, num_passes, label_vars,
                   ocr, calls, outcomes, notice, tessdata>>

\* An error slot that forgets to reset is_processing.
on_error_still_processing ==
    /\ pending # <<>>
    /\ Head(pending).sig = "error"
    /\ pending' = Tail(pending)
    /\ run_over
    /\ UNCHANGED <<ui_vars, label_vars, ocr, calls, outcomes, notice, tessdata>>

\* Lines 470-476, run in the control context for a queued error signal.
on_error ==
    /\ pending # <<>>
    /\ Head(pending).sig = "error"
    /\ pending' = Tail(pending)
    /\ is_processing' = FALSE
    /\ run_over
    /\ UNCHANGED <<pdf_path, output_path, language, dpi, num_passes, label_vars,
                   ocr, calls, outcomes, notice, tessdata>>

Next ==
    \/ start_processing
    \/ process_pdf_begin
    \/ process_pdf_convert
    \/ process_pdf_page
    \/ ocr_pass
    \/ ocr_return
    \/ process_pdf_page_done
    \/ process_pdf_write
    \/ process_pdf_except
    \/ on_finished
    \/ on_error

Spec == Init /\ [][Next]_vars

\* The steps of the worker thread, lines 584-623.
worker ==
    \/ process_pdf_begin
    \/ process_pdf_convert
    \/ process_pdf_page
    \/ ocr_pass
    \/ ocr_return
    \/ process_pdf_page_done
    \/ process_pdf_write
    \/ process_pdf_except

\* The states in which start_processing leaves the window it was
\* constructed as when it starts a worker (lines 519-526) at the default
\* resolution: the document passed the tests of lines 507-517, the output is
\* the default of line 484.
InitRun ==
    /\ tessdata \in TessdataSets
    /\ is_processing = TRUE
    /\ pdf_path \in {p \in PdfInputs : input_warning(p) = NoNotice}
    /\ output_path = with_suffix(pdf_path, ".txt")
    /\ num_passes \in 1..4
    /\ language \in Languages
    /\ dpi = 400
    /\ pages_label = <<"Pages: ", "0">>
    /\ passes_label = <<"Passes: ", "0">>
    /\ notice = NoNotice
    /\ pc = "begin"
    /\ ocr = NoFrame
    /\ images = <<>>
    /\ i = 0
    /\ all_text = <<>>
    /\ text = <<>>
    /\ emitted = <<>>
    /\ written = <<>>
    /\ calls = <<>>
    /\ outcomes = <<>>
    /\ raster_calls = <<>>
    /\ failed_pages = {}
    /\ write_result = ""
    /\ exc = ""
    /\ pending = <<>>
    /\ launched = Launch(pdf_path, output_path, language, dpi, num_passes)

\* One run, from the start of its worker to the slot of its terminal signal.
NextRun == worker \/ on_finished \/ on_error

\* SpecRun: a run when every call of the worker returns and the event loop
\* of the control context runs: a thread that can take a step takes one, and
\* a queued signal (lines 324, 325) is delivered to its slot.
SpecRun ==
    /\ InitRun
    /\ [][NextRun]_vars
    /\ WF_vars(worker)
    /\ WF_vars(on_finished)
    /\ WF_vars(on_error)

\* The files the open dialog of line 420 can return, and the paths the save
\* dialog of line 435.
OpenDialogFiles == ExistingFiles
SaveDialogPaths == {Path("out", ".txt"), Path("other", ".txt")}

\* Lines 419-432 for a dialog that was not cancelled.  The text of
\* output_input is that of its last edit; has_output_text says whether it
\* is non-empty.
browse_pdf ==
    /\ \E filename \in OpenDialogFiles, has_output_text \in BOOLEAN :
         /\ pdf_path' = filename
         /\ output_path' = IF has_output_text THEN output_path
                           ELSE with_suffix(filename, ".txt")
    /\ UNCHANGED <<is_processing, language, dpi, num_passes, label_vars, pc,
                   run_vars, text, ocr, calls, outcomes, notice, tessdata>>

\* Lines 434-443 for a dialog that was not cancelled.
browse_output ==
    /\ \E filename \in SaveDialogPaths : output_path' = filename
    /\ UNCHANGED <<is_processing, pdf_path, language, dpi, num_passes,
                   label_vars, pc, run_vars, text, ocr, calls, outcomes,
                   notice, tessdata>>

\* Lines 479-480: a click on Process PDF during the run.
start_processing_ignored ==
    /\ click_ignored
    /\ UNCHANGED vars

NextBrowse ==
    \/ worker
    \/ on_finished
    \/ on_error
    \/ browse_pdf
    \/ browse_output
    \/ start_processing_ignored

\* SpecBrowse: one run and what the user does in the window meanwhile.
SpecBrowse == InitRun /\ [][NextBrowse]_vars

----------------------------------------------------------------------------
(* Claims C1-C5: ocr_multiple_passes *)

\* The backend invocations a call with num_passes passes makes on an image
\* with n variants, by the claim's rule: pass k uses variant k mod n and
\* the mode at k mod 4 of 6, 3, 11, 12.
ScheduledPair(k, n) ==
    [variant_index |-> k % n, psm |-> <<"6", "3", "11", "12">>[(k % 4) + 1]]

\* C1: ocr_multiple_passes makes one backend invocation per pass, exactly
\* num_passes when it returns and whatever the outcomes were; invocation k
\* (from 0) is given variant k mod len(variants) and mode modes[k mod 4], so
\* the pairs are a function of the image and the pass count alone.
C1_Schedule ==
    LET n == Len(ocr.processed_images)
    IN /\ Len(calls) = ocr.pass_num
       /\ pc = "returned" => Len(calls) = ocr.num_passes
       /\ \A k \in 1..Len(calls) :
            /\ calls[k].pass_num = k - 1
            /\ calls[k].variant_index = ScheduledPair(k - 1, n).variant_index
            /\ calls[k].image = ocr.processed_images[((k - 1) % n) + 1]
            /\ calls[k].psm = ScheduledPair(k - 1, n).psm
            /\ calls[k].lang = ocr.lang

\* C1 witness: six passes on a colour image have returned, the first failed
\* and the last succeeded; the sixth is back at variant 0 and the fifth at
\* mode 6.
C1_Witness ==
    /\ pc = "returned"
    /\ ocr.num_passes = 6
    /\ ocr.image.mode = "RGB"
    /\ ~outcomes[1].ok
    /\ outcomes[6].ok
    /\ calls[6].variant_index = 0
    /\ calls[5].variant_index = 4
    /\ calls[5].psm = "6"
    /\ calls[6].psm = "3"

\* The candidates the claim expects of a sequence of backend outcomes: the
\* trimmed texts of the successful ones that are not all whitespace.
RECURSIVE ExpectedCandidates(_)
ExpectedCandidates(outs) ==
    IF outs = <<>> THEN <<>>
    ELSE LET o == Head(outs)
         IN (IF o.ok /\ \E k \in 1..Len(o.text) : o.text[k] \notin Whitespace
             THEN <<strip(o.text)>> ELSE <<>>)
            \o ExpectedCandidates(Tail(outs))

\* C2: a failed pass does not end the loop: the passes go on to num_passes,
\* and all_results holds exactly the trimmed outputs of the passes that
\* succeeded with text that is not all whitespace, in pass order.
C2_FailureTolerance ==
    /\ pc # "raise"
    /\ ocr.all_results = ExpectedCandidates(outcomes)
    /\ (pc = "returned" \/ ocr.pass_num = ocr.num_passes)
           => Len(outcomes) = ocr.num_passes

\* C2 witness: at the selection after four passes, of which the first
\* failed, the second returned whitespace only and the last two returned
\* words, one of them inside whitespace.
C2_Witness ==
    /\ pc = "pass"
    /\ ocr.num_passes = 4
    /\ ocr.pass_num = 4
    /\ outcomes = <<Fail, Ok(<<"\n", " ">>), Ok(<<" ", "b", "\n">>), Ok(<<"a">>)>>
    /\ ocr.all_results = << <<"b">>, <<"a">> >>

\* C3: the selection on a single candidate returns that candidate.
C3_SingleCandidate ==
    (pc = "returned" /\ Len(ocr.all_results) = 1) => text = ocr.all_results[1]

\* C3 witness: the single candidate has a whitespace-only line, a line with
\* whitespace around it and a repeated line, and is returned as it is.
C3_Witness ==
    /\ pc = "returned"
    /\ ocr.all_results = << <<"a", "\n", " ", "\n", " ", "a">> >>
    /\ text = <<"a", "\n", " ", "\n", " ", "a">>

\* C4: on a non-empty candidate list the selection returns the merged text
\* when len(merged) > 1.2 * len(best) and best otherwise, also at equality;
\* the candidates AB/CD and CD/EF give AB/CD/EF, and "hello world" and
\* "hello" give both lines.
C4_Threshold ==
    (pc = "returned" /\ ocr.all_results # <<>>) =>
        LET merged == merged_result(ocr.all_results)
            best == best_result(ocr.all_results)
        IN /\ 10 * Len(merged) > 12 * Len(best) => text = merged
           /\ 10 * Len(merged) <= 12 * Len(best) => text = best
           /\ ocr.all_results = ExampleAB
                  => text = <<"A", "B", "\n", "C", "D", "\n", "E", "F">>
           /\ ocr.all_results = ExampleHello
                  => text = <<"h", "e", "l", "l", "o", " ", "w", "o", "r", "l", "d",
                              "\n", "h", "e", "l", "l", "o">>

\* C4 witness: the equality case, a best of 5 characters and a merged text
\* of 6, where best is returned.
C4_Witness ==
    /\ pc = "returned"
    /\ ocr.all_results = << <<"a", "b", "\n", " ", "a">>, <<"b">> >>
    /\ Len(merged_result(ocr.all_results)) = 6
    /\ text = <<"a", "b", "\n", " ", "a">>

NoCandidate(o) == ~o.ok \/ \A k \in 1..Len(o.text) : o.text[k] \in Whitespace

\* C5: when every pass of a page failed or returned only whitespace, the
\* page's result is the empty text.
C5_NoCandidates ==
    (pc = "returned" /\ \A k \in 1..Len(outcomes) : NoCandidate(outcomes[k]))
        => text = <<>>

\* C5 witness: three passes have returned, two failed and one gave
\* whitespace only.
C5_Witness ==
    /\ pc = "returned"
    /\ outcomes = <<Fail, Ok(<<"\n", " ">>), Fail>>
    /\ text = <<>>

----------------------------------------------------------------------------
(* Claims C6-C10: process_pdf *)

Emitted(sig) == {k \in 1..Len(emitted) : emitted[k].sig = sig}

\* The progress values the worker has emitted, in order.
ProgressValues ==
    LET ps == SelectSeq(emitted, LAMBDA e : e.sig = "progress")
    IN [k \in 1..Len(ps) |-> ps[k].val]

\* Fractions <<numerator, denominator>> with positive denominators.
Less(p, q) == p[1] * q[2] < q[1] * p[2]
Same(p, q) == p[1] * q[2] = q[1] * p[2]

RasterFailed == \E k \in 1..Len(raster_calls) : ~raster_calls[k].ok

\* C6: a run emits finished at most once, and when it has been emitted the
\* sink holds the complete text of all pages at the path it reports.
C6_FinishedAfterWrite ==
    /\ Cardinality(Emitted("finished")) <= 1
    /\ \A k \in Emitted("finished") :
         /\ Len(all_text) = Len(images)
         /\ written = <<[path |-> emitted[k].val.output_path,
                         text |-> join(all_text),
                         complete |-> TRUE]>>

\* C6 witness: finished has been emitted for a document of two pages whose
\* second page has text.
C6_Witness ==
    /\ Emitted("finished") # {}
    /\ Len(images) = 2
    /\ text # <<>>
    /\ written # <<>>

\* C7: an error notification is the last notification of its run, and no
\* run emits both finished and error.
C7_ErrorTerminal ==
    /\ \A k \in Emitted("error") : k = Len(emitted)
    /\ Emitted("error") = {} \/ Emitted("finished") = {}

\* C7 witness: the write failed after a page was processed, and error is
\* the last notification, after progress and text_update.
C7_Witness ==
    /\ Emitted("error") # {}
    /\ Emitted("text_update") # {}
    /\ emitted[Len(emitted)].sig = "error"
    /\ pc = "done"

\* C8 as claimed: in a run that has emitted finished, the progress values
\* are strictly increasing and end with 100%.
C8_StrictlyIncreasing ==
    Emitted("finished") # {} =>
        LET p == ProgressValues
        IN /\ \A k \in 1..(Len(p) - 1) : Less(p[k], p[k + 1])
           /\ Same(p[Len(p)], <<100, 100>>)

\* C8 amended: in a run that has emitted finished, the progress values
\* never decrease and end with 100%; two neighbours are equal only when
\* both are 95%, the value of the last page and the value emitted before
\* the write, so a document without pages has strictly increasing values.
C8_NonDecreasing ==
    Emitted("finished") # {} =>
        LET p == ProgressValues
        IN /\ Same(p[Len(p)], <<100, 100>>)
           /\ \A k \in 1..(Len(p) - 1) :
                \/ Less(p[k], p[k + 1])
                \/ /\ Same(p[k], <<95, 100>>)
                   /\ Same(p[k + 1], <<95, 100>>)
                   /\ k + 1 = Len(p) - 1
                   /\ Len(images) >= 1
           /\ Len(images) >= 1 => Same(p[Len(p) - 2], p[Len(p) - 1])

\* C8 witness: a run over two pages has emitted finished; its progress
\* values are 5%, 10%, 52.5%, 95%, 95%, 100%.
C8_Witness ==
    /\ Emitted("finished") # {}
    /\ Len(images) = 2
    /\ ProgressValues = << <<5, 100>>, <<10, 100>>, <<105, 200>>, <<190, 200>>,
                           <<95, 100>>, <<100, 100>> >>

\* C9: when the rasterizer has failed, it was called once, no page is
\* processed and no backend invocation made, nothing is written, finished
\* is not emitted, and the run ends with error as its last notification.
C9_RasterFailure ==
    RasterFailed =>
        /\ Len(raster_calls) = 1
        /\ pc \in {"raise", "done"}
        /\ pc = "done" => /\ emitted # <<>>
                          /\ emitted[Len(emitted)].sig = "error"
        /\ i = 0
        /\ ocr = NoFrame
        /\ calls = <<>>
        /\ all_text = <<>>
        /\ Emitted("text_update") = {}
        /\ Emitted("finished") = {}
        /\ written = <<>>

\* C9 witness: the rasterizer has failed and the run is over.
C9_Witness ==
    /\ RasterFailed
    /\ pc = "done"
    /\ emitted[Len(emitted)].sig = "error"

\* Every pass so far of the page being processed has failed.
AllPassesFailed ==
    /\ outcomes # <<>>
    /\ \A k \in 1..Len(outcomes) : ~outcomes[k].ok

----------------------------------------------------------------------------
(* Claims C11-C20 *)

\* The run's language has no data installed, so every backend invocation of
\* the run raises the missing-language failure, and at least one page has
\* been through its passes.
MissingLanguageRun ==
    /\ is_processing
    /\ lang_parts(language) \cap tessdata = {}
    /\ failed_pages # {}

\* C11 as claimed: when every backend invocation fails because the language
\* data is missing, the run ends with an error that names the missing
\* language, finished is not emitted and no output is written.
C11_MissingLanguageError ==
    MissingLanguageRun =>
        /\ Emitted("finished") = {}
        /\ written = <<>>
        /\ pc = "done" => /\ emitted[Len(emitted)].sig = "error"
                          /\ emitted[Len(emitted)].val = MissingLanguage.error

\* The texts of pdf_input the claim calls input errors.
InputError(p) == p = EmptyPath \/ p \notin ExistingFiles \/ p.suffix # ".pdf"

\* C12 as claimed: a click on Process PDF with an empty, missing or non-PDF
\* document path reports the error, starts no worker, leaves is_processing
\* false, and makes no rasterizer or backend call and no write.
C12_InputErrorsFailFast ==
    [][(start_processing /\ InputError(pdf_path')) =>
          /\ notice'.kind = "warning"
          /\ ~is_processing'
          /\ pc' = "idle"
          /\ raster_calls' = <<>>
          /\ calls' = <<>>
          /\ written' = <<>>]_vars

\* The section the claim expects for page k with the text t: the header of
\* 'Page k' between two rules, an empty line, the text.
PageSection(k, t) ==
    <<"\n", Rule, "\n", "Page ", ToString(k), "\n", Rule, "\n", "\n">> \o t \o <<"\n">>

\* The text of a section, without its header and its last line break.
SectionText(sec) == SubSeq(sec, 10, Len(sec) - 1)

\* A step that changes all_text appends the section of the next page, with
\* the text selected from that page's candidates, or empties it when the
\* run is over.
SectionAppended ==
    /\ (all_text' # all_text /\ all_text' # <<>>) =>
          (/\ ocr.image.page = Len(all_text) + 1
           /\ images[Len(all_text) + 1] = ocr.image
           /\ text = select(ocr.all_results)
           /\ all_text' = Append(all_text, PageSection(Len(all_text) + 1, text)))
    /\ (all_text' = <<>>) => (all_text = <<>> \/ pc' = "idle")

\* When finished has been emitted the sink holds the join of one section
\* per page, the sections of pages 1..n in this order.
SectionsWritten ==
    /\ Len(all_text) <= Len(images)
    /\ \A k \in 1..Len(all_text) :
          all_text[k] = PageSection(k, SectionText(all_text[k]))
    /\ Emitted("finished") # {} =>
          (/\ Len(all_text) = Len(images)
           /\ Len(written) = 1
           /\ written[1].text = join(all_text))

\* C13: all_text grows by one section at a time, the section of the next
\* page with the text selected from that page's candidates, and a section
\* once appended never changes during the run; when finished is emitted the
\* sink holds the join of exactly one section per page, in page order.
C13_PageSections == []SectionsWritten /\ [][SectionAppended]_vars

\* C13 witness: finished has been emitted for two pages with different
\* texts, and the sink holds the section of page 1 and then that of page 2.
C13_Witness ==
    /\ Emitted("finished") # {}
    /\ Len(images) = 2
    /\ Len(written) = 1
    /\ written[1].text =
           PageSection(1, <<"a">>) \o <<"\n">> \o PageSection(2, <<"b">>)

\* The terminal notifications the run's worker has emitted.
Terminal == Emitted("finished") \cup Emitted("error")

\* A run emits at most one terminal notification, the last of its
\* notifications, and finished carries the output path, the page count and
\* the pass count of the run; the notification is queued for its slot; when
\* is_processing is false no worker is running and a new run can be started.
OneTerminal ==
    /\ Cardinality(Terminal) <= 1
    /\ \A k \in Terminal : k = Len(emitted)
    /\ \A k \in Emitted("finished") :
          emitted[k].val = [output_path |-> output_path,
                            pages |-> Len(images),
                            passes |-> num_passes]
    /\ Len(pending) = IF pc = "done" THEN 1 ELSE 0
    /\ pc = "done" => pending = <<emitted[Len(emitted)]>>
    /\ ~is_processing => (pc = "idle" /\ ENABLED start_processing)

\* is_processing is reset only by the slot of the run's one terminal
\* notification.
ResetByTerminal ==
    (is_processing /\ ~is_processing') =>
        /\ Cardinality(Terminal) = 1
        /\ pending = <<emitted[Len(emitted)]>>
        /\ pending' = <<>>

\* C14: when every call returns, a run that was started emits exactly one
\* terminal notification, finished with the output path, the page count and
\* the pass count, or one error, and is_processing is false again after it.
C14_TerminalNotification ==
    /\ []OneTerminal
    /\ [][ResetByTerminal]_vars
    /\ is_processing ~> (Terminal # {})
    /\ is_processing ~> ~is_processing

\* C14 witness: the run's finished notification is queued for on_finished
\* and is_processing is still true.
C14_Witness ==
    /\ is_processing
    /\ pc = "done"
    /\ Emitted("finished") # {}
    /\ pending # <<>>
    /\ Head(pending).val.pages = 2

\* One recorded derivation.
Op(name, arg) == [op |-> name, arg |-> arg]

\* C15: the variants of a source image are 4 when it is single-channel and
\* 5 otherwise: the source itself, then contrast 1.5, sharpness 2.0, the
\* median filter and, for a source that is not single-channel, grayscale
\* with contrast 2.0, each derived from the source.
C15_VariantSequence ==
    LET src == ocr.image
        v == ocr.processed_images
    IN /\ Len(v) = (IF src.mode = "L" THEN 4 ELSE 5)
       /\ Len(v) >= 4
       /\ v[1] = src
       /\ v[2] = [src EXCEPT !.ops = src.ops \o <<Op("Contrast", "1.5")>>]
       /\ v[3] = [src EXCEPT !.ops = src.ops \o <<Op("Sharpness", "2.0")>>]
       /\ v[4] = [src EXCEPT !.ops = src.ops \o <<Op("MedianFilter", "3")>>]
       /\ src.mode # "L" =>
             v[5] = [page |-> src.page, mode |-> "L",
                     ops |-> src.ops \o <<Op("convert", "L"), Op("Contrast", "2.0")>>]

\* C15 witness: five passes on a colour image have returned; the third was
\* given the sharpened source and the fifth the grayscale variant.
C15_Witness ==
    /\ pc = "returned"
    /\ ocr.image.mode = "RGB"
    /\ Len(calls) = 5
    /\ calls[3].image.ops = <<Op("Sharpness", "2.0")>>
    /\ calls[5].image.mode = "L"
    /\ calls[5].image.ops = <<Op("convert", "L"), Op("Contrast", "2.0")>>

\* C16 as claimed: an error of a derivation step never leaves
\* preprocess_image: the variants have at least the source image, the
\* page's passes run and the run is not aborted by it.
C16_VariantGeneratorNeverFails ==
    /\ exc # "image error"
    /\ \A k \in Emitted("error") : emitted[k].val # "image error"
    /\ pc \in {"pass", "returned"} =>
          (Len(ocr.processed_images) >= 1 /\ ocr.processed_images[1] = ocr.image)

\* C17: best is the longest candidate by character count and, among several
\* of that length, the one of the earliest pass; it is what the selection
\* returns when the merged text does not win.
C17_BestIsFirstLongest ==
    (pc = "returned" /\ ocr.all_results # <<>>) =>
        LET c == ocr.all_results
            longest == CHOOSE n \in {Len(c[k]) : k \in DOMAIN c} :
                           \A k \in DOMAIN c : Len(c[k]) <= n
            earliest == CHOOSE k \in DOMAIN c :
                            /\ Len(c[k]) = longest
                            /\ \A m \in DOMAIN c : Len(c[m]) = longest => k <= m
        IN /\ best_result(c) = c[earliest]
           /\ ~merge_wins(Len(merged_result(c)), longest) => text = c[earliest]

\* C17 witness: two different candidates of the same length, the merged text
\* does not win, and the first candidate is returned.
C17_Witness ==
    /\ pc = "returned"
    /\ ocr.all_results = << <<"a", "\n", "a">>, <<"a", "\n", "b">> >>
    /\ text = <<"a", "\n", "a">>

\* The positions <<candidate, line>> of the lines of the candidates c.
LinePositions(c) ==
    UNION {{<<k, p>> : p \in DOMAIN split(c[k])} : k \in DOMAIN c}

\* Position a is scanned no later than b: candidates in pass order, lines
\* in text order.
ScannedBefore(a, b) == a[1] < b[1] \/ (a[1] = b[1] /\ a[2] <= b[2])

\* C18: the lines of the merged text are the distinct non-empty trimmed
\* lines of all candidates, each once, in the order of their first
\* occurrence; none is empty, has whitespace around it or is repeated.
C18_MergedLines ==
    (pc = "returned" /\ ocr.all_results # <<>>) =>
        LET c == ocr.all_results
            merged == merged_result(c)
            lines == split(merged)
            at(pos) == strip(split(c[pos[1]])[pos[2]])
            first(l) == CHOOSE pos \in LinePositions(c) :
                            /\ at(pos) = l
                            /\ \A q \in LinePositions(c) :
                                   at(q) = l => ScannedBefore(pos, q)
        IN /\ \A k \in DOMAIN lines :
                /\ lines[k] # <<>>
                /\ lines[k][1] \notin Whitespace
                /\ lines[k][Len(lines[k])] \notin Whitespace
           /\ \A j, k \in DOMAIN lines : j # k => lines[j] # lines[k]
           /\ {lines[k] : k \in DOMAIN lines} =
                  {at(pos) : pos \in LinePositions(c)} \ {<<>>}
           /\ \A j, k \in DOMAIN lines :
                  j < k => (/\ first(lines[j]) # first(lines[k])
                            /\ ScannedBefore(first(lines[j]), first(lines[k])))
           /\ merge_wins(Len(merged), Len(best_result(c))) => text = merged

\* C18 witness: the second candidate repeats the line of the first with
\* whitespace before it; the merged text keeps that line once, at its first
\* position, and trimmed.
C18_Witness ==
    /\ pc = "returned"
    /\ ocr.all_results = << <<"a">>, <<"b", "\n", " ", "a">> >>
    /\ merged_result(ocr.all_results) = <<"a", "\n", "b">>
    /\ text = ocr.all_results[2]

\* The page progress values that have been emitted.
PageProgressEmitted ==
    {p \in 1..Len(images) :
        \E k \in Emitted("progress") :
            emitted[k].val = page_progress(p, Len(images))}

\* C19 as claimed: the progress value of page i is emitted only after the
\* passes and the selection of page i have finished, that is when the
\* section of page i is there.
C19_ProgressAfterPage ==
    \A p \in PageProgressEmitted : Len(all_text) >= p

\* The pair of variant and layout mode of a backend invocation.
Pair(call) == <<call.variant_index, call.psm>>

\* C20 as claimed: no two passes of a page use the same pair of variant and
\* layout mode.
C20_DistinctPairs ==
    \A j, k \in DOMAIN calls : j < k => Pair(calls[j]) # Pair(calls[k])

\* C20 amended: two passes of a page use the same pair exactly when their
\* pass numbers differ by a multiple of both the number of variants and the
\* number of layout modes (of 4 on a single-channel source, of 20
\* otherwise); up to that many passes all pairs differ.
C20_PairsRepeatByPeriod ==
    LET n == IF ocr.image.mode = "L" THEN 4 ELSE 5
    IN /\ pc \in {"pass", "returned"} => Len(ocr.processed_images) = n
       /\ \A j, k \in DOMAIN calls :
            j < k => (Pair(calls[j]) = Pair(calls[k])
                        <=> ((k - j) % n = 0 /\ (k - j) % 4 = 0))

\* C20 witness: five passes on a single-channel image have returned; the
\* fifth used the pair of the first, and the second to fourth used others.
C20_Witness ==
    /\ pc = "returned"
    /\ ocr.image.mode = "L"
    /\ Len(calls) = 5
    /\ Pair(calls[5]) = Pair(calls[1])
    /\ Pair(calls[1]) = <<0, "6">>
    /\ \A k \in 2..4 : Pair(calls[k]) # Pair(calls[1])

----------------------------------------------------------------------------
(* Claims C21-C25 *)

\* C21 as claimed: no step of the worker thread writes state of the
\* control context, the widgets and their labels; it only emits.
C21_WorkerOnlyEmits ==
    [][worker => UNCHANGED <<label_vars, is_processing, notice>>]_vars

\* Whenever the worker thread exists, is_processing is true.
WorkerRunning == pc # "idle" => is_processing

\* A step that leaves a worker at the first line of process_pdf starts it
\* from a state in which is_processing is false and no worker exists.
StartsWhenIdle ==
    pc' = "begin" =>
        (~is_processing /\ pc = "idle" /\ pending = <<>> /\ is_processing')

\* C22: at most one worker is active at any time: start_processing starts
\* a worker only when is_processing is false, and whenever a worker is
\* running is_processing is true.
C22_OneWorker == []WorkerRunning /\ [][StartsWhenIdle]_vars

\* C22 witness: a second worker has been started, after the run that set
\* the page count of two was over.
C22_Witness ==
    /\ pc = "begin"
    /\ is_processing
    /\ pages_label = <<"Pages: ", "2">>

\* C23 as claimed: the worker rasterizes the document, uses the language,
\* the resolution and the pass count, and writes to and reports the output
\* path that were in effect when the run was started, whatever the user
\* does in the window meanwhile.
C23_ConfigurationFixed ==
    /\ \A k \in DOMAIN raster_calls :
         /\ raster_calls[k].path = launched.pdf_path
         /\ raster_calls[k].dpi = launched.dpi
    /\ \A k \in DOMAIN calls : calls[k].lang = launched.language
    /\ pc \in {"pass", "returned"} => ocr.num_passes = launched.num_passes
    /\ \A k \in DOMAIN written : written[k].path = launched.output_path
    /\ \A k \in Emitted("finished") :
         /\ emitted[k].val.output_path = launched.output_path
         /\ emitted[k].val.passes = launched.num_passes

\* The candidates c in the order f, a permutation of their indices.
Reordered(c, f) == [k \in DOMAIN c |-> c[f[k]]]

\* The lines of the text t, as a set.
LineSet(t) == {split(t)[k] : k \in DOMAIN split(t)}

\* C24 as claimed: for every permutation of the candidates the selection
\* returns the same text.
C24_OrderIndependent ==
    (pc = "returned" /\ ocr.all_results # <<>>) =>
        \A f \in Permutations(DOMAIN ocr.all_results) :
            select(Reordered(ocr.all_results, f)) = text

\* C24 amended: the order of the candidates decides only the tie among the
\* longest candidates and the order of the merged lines: for every
\* permutation the selection takes the same alternative, merged or best,
\* and returns a text of the same length, a merged text of the same lines
\* or a longest candidate.
C24_OrderThroughTies ==
    (pc = "returned" /\ ocr.all_results # <<>>) =>
        LET c == ocr.all_results
            wins(r) == merge_wins(Len(merged_result(r)), Len(best_result(r)))
        IN \A f \in Permutations(DOMAIN c) :
               LET d == Reordered(c, f)
               IN /\ Len(select(d)) = Len(text)
                  /\ wins(d) <=> wins(c)
                  /\ wins(c) => /\ text = merged_result(c)
                                /\ select(d) = merged_result(d)
                                /\ LineSet(select(d)) = LineSet(text)
                  /\ ~wins(c) => /\ \E k \in DOMAIN c : select(d) = c[k]
                                 /\ \A k \in DOMAIN c : Len(c[k]) <= Len(select(d))

\* C24 witness: the candidates a and b give the merged text a, b, and in
\* the other order b, a.
C24_Witness ==
    /\ pc = "returned"
    /\ ocr.all_results = << <<"a">>, <<"b">> >>
    /\ text = <<"a", "\n", "b">>
    /\ select(<< <<"b">>, <<"a">> >>) = <<"b", "\n", "a">>

\* The text_update notifications of the run, in order.
TextUpdates == SelectSeq(emitted, LAMBDA e : e.sig = "text_update")

\* C25 as claimed: a run over n pages emits exactly n text_update
\* notifications, the k-th carries the sections of the pages 1..k in order,
\* and for n >= 1 the text written to the output file is that of the last.
C25_TextUpdates ==
    /\ Len(TextUpdates) <= Len(images)
    /\ \A k \in DOMAIN TextUpdates :
         /\ k <= Len(all_text)
         /\ all_text[k] = PageSection(k, SectionText(all_text[k]))
         /\ TextUpdates[k].val = join(SubSeq(all_text, 1, k))
    /\ pc = "done" => Len(TextUpdates) = Len(images)
    /\ \A k \in DOMAIN written :
         (written[k].complete /\ Len(images) >= 1) =>
             written[k].text = TextUpdates[Len(TextUpdates)].val

====
